---- MODULE Spec2Model ----
(***************************************************************************)
(* A model of the GENERIC log / transaction aggregation pipeline:          *)
(*   msg_parser.py          text merge, Session/LPE dispatch, chunk scan   *)
(*   prom_parser.py         vendor protocol driver                         *)
(*   log_parsers_generic.py line driver, file dispatch, multi-file run     *)
(* A parsed XML element or a log line is represented by the values the     *)
(* code reads from it (attributes found by find()/get() or by the regular  *)
(* expressions); everything the code then does with them is modelled.      *)
(***************************************************************************)
EXTENDS Integers, Sequences, FiniteSets, TLC

(***************************************************************************)
(* Bounds of the model.                                                    *)
(***************************************************************************)
\* Units (lines, LPE elements) one file holds.
MaxUnits == 3
\* Parsed date/time values are 1..MaxStamp, ordered as the datetimes are.
MaxStamp == 2
\* Files one parse_multiple_logs run is handed.
MaxFiles == 2
\* Tokens of content one file holds, and how many of them the sniff of
\* parse_generic_log reads (the code reads 2048 characters).
MaxContent == 3
ChunkLen == 2

(***************************************************************************)
(* Values.                                                                 *)
(***************************************************************************)
\* Python's None for string-valued fields (and an absent attribute).
None == "None"
\* Python's None for transaction_time / a datetime.
NoTime == 0
Stamps == 1..MaxStamp
TxIds == {"T1", "T2"}

\* float(): the attribute strings that convert, with their values.
NumOf == [s \in {"0", "1", "2", "3", "5", "7"} |->
            CASE s = "0" -> 0 [] s = "1" -> 1 [] s = "2" -> 2
              [] s = "3" -> 3 [] s = "5" -> 5 [] s = "7" -> 7]
IsNumeric(s) == s \in DOMAIN NumOf
\* The value float(s) returns; it raises ValueError when ~IsNumeric(s).
Float(s) == NumOf[s]

\* attrs.get(name, default): the attribute's value, the default when the
\* attribute is absent (None).
Attr(s, default) == IF s = None THEN default ELSE s

Min(S) == CHOOSE x \in S : \A y \in S : x <= y

VARIABLES
  driver,           \* which driver parse_generic_log runs on the file
  status,           \* "running" | "raised": an exception left the driver
  nunits,           \* units of the file consumed so far
  transactions,     \* the file's transaction map: txid -> record
  current_ticket,   \* the current-transaction context of the LPE loop
  in_session,       \* inside parse_single_xml's loop over Session/LPE
  session_dt,       \* the vendor driver's session timestamp (NoTime: none)
  \* parse_multiple_logs
  file_no,              \* the file of file_list being parsed (1-based)
  global_transactions,  \* the run's combined map
  shared_transactions,  \* the same lines merged into one map shared by all
                        \* files: what a concatenated file would produce
  \* parse_big_xml
  pc,               \* "idle" | "whole" | "outer" | "inner" | "cut" | "done"
  text_str,         \* the file's text, a sequence of characters
  idx,              \* the scan position (0-based, as in the code)
  start_idx,        \* where the chunk being scanned starts
  bracket_count,    \* the scanner's counter
  chunks,           \* the chunks cut so far, each with the parse's outcome
  \* parse_generic_log's choice of driver
  file_name,        \* the file's base name, a sequence of characters
  content,          \* the file's content, a sequence of tokens
  \* parse_line_based with its rows
  rows,             \* the rows yielded so far
  last_ts,          \* the last timestamp a matched line parsed to
  accum,            \* the lines process_inline_xml_from_line has gathered
                    \* for an open CDATA block (<<>>: none open)
  \* GenericDBManager
  generic_transactions,  \* the parent table: the rows in insertion order
  generic_items          \* the item table: the rows in insertion order

file_vars == <<driver, status, nunits, transactions, current_ticket, in_session, session_dt>>
multi_vars == <<file_no, global_transactions, shared_transactions>>
scan_vars == <<pc, text_str, idx, start_idx, bracket_count, chunks>>
route_vars == <<file_name, content>>
row_vars == <<rows, last_ts, accum>>
sink_vars == <<generic_transactions, generic_items>>
aux_vars == <<route_vars, row_vars, sink_vars>>
vars == <<file_vars, multi_vars, scan_vars, aux_vars>>

(***************************************************************************)
(* msg_parser.init_transaction                                             *)
(***************************************************************************)
NewRecord(txid) ==
  [trans_id |-> txid, storeID |-> None, card_id |-> None,
   first_name |-> None, last_name |-> None,
   phone_numbers |-> {}, promotions |-> {}, items |-> <<>>,
   tenders |-> <<>>, transaction_time |-> NoTime, timestamps |-> {}]

init_transaction(txid, txs) ==
  IF txid \in DOMAIN txs THEN txs
  ELSE [t \in DOMAIN txs \cup {txid} |->
          IF t = txid THEN NewRecord(txid) ELSE txs[t]]

(***************************************************************************)
(* msg_parser.merge_transaction_info                                       *)
(* A text is what the regular expressions find in it:                      *)
(*   ids    RE_TRANS_ID.findall (as a set)                                 *)
(*   cards  RE_CARD_ID.findall, firsts/lasts RE_FIRST/RE_LAST.findall      *)
(*   phones RE_PHONE.findall, promos RE_PROMO.findall                      *)
(*   blocks the attribute dicts of the <ItemInfo ...> blocks               *)
(*   stamps the values of StartDateTime/EndDateTime/BusinessDate that      *)
(*          parse_timestamp accepts                                        *)
(***************************************************************************)
\* The item one <ItemInfo> block appends (lines 111-118).
TextItem(b) ==
  [plu |-> b.plu, name |-> b.name, depCode |-> b.dep,
   qty |-> Float(Attr(b.qty, "1")), price |-> Float(Attr(b.price, "0")),
   amount |-> Float(Attr(b.amount, "0"))]

BlockConverts(b) ==
  IsNumeric(Attr(b.qty, "1")) /\ IsNumeric(Attr(b.price, "0")) /\ IsNumeric(Attr(b.amount, "0"))

\* Variant, not the code: the last card and the last names of the text are
\* stored whether or not the record holds one.
MergeBasicOverwrite(rec, text) ==
  [rec EXCEPT
     !.card_id = IF text.cards # <<>> THEN text.cards[Len(text.cards)] ELSE @,
     !.first_name = IF text.firsts # <<>> THEN text.firsts[Len(text.firsts)] ELSE @,
     !.last_name = IF text.lasts # <<>> THEN text.lasts[Len(text.lasts)] ELSE @,
     !.phone_numbers = @ \cup text.phones,
     !.promotions = @ \cup text.promos]

\* Lines 94-106: card, names, phones, promotions.
MergeBasic(rec, text) ==
  [rec EXCEPT
     !.card_id = IF rec.card_id = None /\ text.cards # <<>>
                 THEN text.cards[1] ELSE @,
     !.first_name = IF text.firsts # <<>> /\ rec.first_name = None
                    THEN text.firsts[Len(text.firsts)] ELSE @,
     !.last_name = IF text.lasts # <<>> /\ rec.last_name = None
                   THEN text.lasts[Len(text.lasts)] ELSE @,
     !.phone_numbers = @ \cup text.phones,
     !.promotions = @ \cup text.promos]

\* Variant, not the code: an item equal to one already held is not appended again.
RECURSIVE AppendNewBlocks(_, _)
AppendNewBlocks(items, blocks) ==
  IF blocks = <<>> \/ ~BlockConverts(Head(blocks)) THEN items
  ELSE AppendNewBlocks(
         IF \E n \in 1..Len(items) : items[n] = TextItem(Head(blocks))
         THEN items ELSE Append(items, TextItem(Head(blocks))),
         Tail(blocks))

\* Lines 109-118: the blocks appended before the first one float() rejects.
RECURSIVE AppendBlocks(_, _)
AppendBlocks(items, blocks) ==
  IF blocks = <<>> \/ ~BlockConverts(Head(blocks)) THEN items
  ELSE AppendBlocks(Append(items, TextItem(Head(blocks))), Tail(blocks))

BlocksRaise(blocks) == \E i \in 1..Len(blocks) : ~BlockConverts(blocks[i])

\* Variant, not the code: the time follows the running minimum.
SetTimeRunningMin(rec) ==
  IF rec.timestamps # {}
  THEN [rec EXCEPT !.transaction_time = Min(rec.timestamps)]
  ELSE rec

\* Lines 128-129 (and 249-250, 272-273, ...): first assignment only.
SetTimeIfUnset(rec) ==
  IF rec.timestamps # {} /\ rec.transaction_time = NoTime
  THEN [rec EXCEPT !.transaction_time = Min(rec.timestamps)]
  ELSE rec

\* Variant, not the code: the time is assigned before the text's timestamps are added.
MergeStampsLate(rec, stamps) ==
  [SetTimeIfUnset(rec) EXCEPT !.timestamps = @ \cup stamps]

\* Lines 120-129.
MergeStamps(rec, stamps) ==
  SetTimeIfUnset([rec EXCEPT !.timestamps = @ \cup stamps])

\* The body of the loop over set(trans_ids) for one txid (lines 90-129).
MergeOne(txid, text, txs) ==
  LET t1 == init_transaction(txid, txs)
      r1 == MergeBasic(t1[txid], text)
      r2 == [r1 EXCEPT !.items = AppendBlocks(@, text.blocks)]
      r3 == IF BlocksRaise(text.blocks) THEN r2 ELSE MergeStamps(r2, text.stamps)
  IN [t1 EXCEPT ![txid] = r3]

RECURSIVE MergeInOrder(_, _, _)
MergeInOrder(order, text, txs) ==
  IF order = <<>> THEN txs
  ELSE MergeInOrder(Tail(order), text, MergeOne(Head(order), text, txs))

\* The orders in which "for txid in set(trans_ids)" may visit the ids.
Orders(S) == {o \in [1..Cardinality(S) -> S] : \A i, j \in DOMAIN o : i # j => o[i] # o[j]}

\* merge_transaction_info(text, transactions): the map it leaves and whether
\* a ValueError left it.  With a raising block the loop stops in its first
\* iteration, so only the first id visited is touched.
merge_transaction_info(order, text, txs) ==
  IF text.ids = {} THEN [txs |-> txs, raised |-> FALSE]
  ELSE IF BlocksRaise(text.blocks)
       THEN [txs |-> MergeOne(order[1], text, txs), raised |-> TRUE]
       ELSE [txs |-> MergeInOrder(order, text, txs), raised |-> FALSE]

(***************************************************************************)
(* Input texts.                                                            *)
(***************************************************************************)
GoodBlock == [plu |-> "100", name |-> "a", dep |-> "5", qty |-> "2", price |-> "3", amount |-> "5"]
BadBlock == [plu |-> "100", name |-> "a", dep |-> "5", qty |-> "x", price |-> "3", amount |-> "5"]

PlainText == [ids |-> {}, cards |-> <<>>, firsts |-> <<>>, lasts |-> <<>>,
              phones |-> {}, promos |-> {}, blocks |-> <<>>, stamps |-> {}]

\* The date/time values one text or fragment carries: none, one, or all.
OneStamp == {{}} \cup {{s} : s \in Stamps}

\* Texts that carry ids and one group of attributes.
AttrTexts ==
  {[PlainText EXCEPT !.cards = c] : c \in {<<"c1">>, <<"c2", "c1">>}}
  \cup {[PlainText EXCEPT !.firsts = f, !.lasts = f] : f \in {<<"n1">>, <<"n1", "n2">>}}
  \cup {[PlainText EXCEPT !.phones = {"p1"}, !.promos = {"9"}]}
  \cup {[PlainText EXCEPT !.blocks = b] : b \in {<<GoodBlock>>, <<GoodBlock, BadBlock>>}}
  \cup {[PlainText EXCEPT !.stamps = s] : s \in OneStamp \cup {Stamps}}

Texts ==
  {PlainText} \cup
  {[a EXCEPT !.ids = i] : a \in AttrTexts, i \in {{"T1"}, {"T2"}, {"T1", "T2"}}}

(***************************************************************************)
(* log_parsers_generic.parse_line_based: the merge of one line.            *)
(***************************************************************************)
\* The line holds `text`; `order` is the order set(trans_ids) is visited in.
\* A ValueError leaves the generator: the rest of the file is not read.
LineStep(text, order) ==
  /\ driver = "line" /\ status = "running" /\ ~in_session
  /\ nunits < MaxUnits
  /\ LET r == merge_transaction_info(order, text, transactions)
     IN /\ transactions' = r.txs
        /\ status' = IF r.raised THEN "raised" ELSE "running"
  /\ nunits' = nunits + 1
  /\ UNCHANGED <<driver, current_ticket, in_session, session_dt>>
  /\ UNCHANGED <<multi_vars, scan_vars>>
  /\ UNCHANGED aux_vars

LineMerge == \E text \in Texts : \E order \in Orders(text.ids) : LineStep(text, order)

(***************************************************************************)
(* XML fragments (one LPE element).  A fragment is what the dispatchers    *)
(* read from it:                                                           *)
(*   method  the Method attribute (None when the attribute is absent)      *)
(*   parsed  the element's text parsed as XML (msg_parser line 234)        *)
(*   ticket  the TicketNumber attribute of SystemParameters (SetParam) or  *)
(*           of GeneralData (Query(Response)); on other methods, a         *)
(*           TicketNumber attribute somewhere in the fragment's text       *)
(*   item    the attributes of ItemInfo (AddItem) or of the one            *)
(*           TicketItems/Item (Query(Response)); None when absent          *)
(*   titems  a TicketItems element is present                              *)
(*   stamps  the parsed values of the date/time attributes in the fragment *)
(*   card    a CardID attribute in the fragment; None when absent          *)
(***************************************************************************)
ItemA == [plu |-> "100", pos |-> "1", dep |-> "5", name |-> "a",
          qty |-> "1", price |-> "3", amount |-> "3", sub |-> None, rew |-> "0"]
ItemB == [plu |-> "100", pos |-> "1", dep |-> "5", name |-> "b",
          qty |-> "2", price |-> "5", amount |-> "5", sub |-> "7", rew |-> "2"]
ItemC == [plu |-> "100", pos |-> "2", dep |-> "5", name |-> "c",
          qty |-> "1", price |-> "3", amount |-> "2", sub |-> None, rew |-> "0"]
ItemBad == [plu |-> "100", pos |-> "1", dep |-> "5", name |-> "a",
            qty |-> "x", price |-> "3", amount |-> "3", sub |-> None, rew |-> "0"]
\* An ItemInfo without the attributes Amount and PosSequence.
ItemNoAmt == [plu |-> "100", pos |-> None, dep |-> "5", name |-> "d",
              qty |-> "2", price |-> "3", amount |-> None, sub |-> None, rew |-> "0"]
NoItem == [plu |-> None, pos |-> None, dep |-> None, name |-> None,
           qty |-> None, price |-> None, amount |-> None, sub |-> None, rew |-> None]

Frag(m, t, i, ti, s) ==
  [method |-> m, parsed |-> TRUE, ticket |-> t, item |-> i, titems |-> ti, stamps |-> s,
   card |-> None]

Tickets == TxIds \cup {None}

SetParamFrags ==
  {Frag("SetParam", t, NoItem, FALSE, {}) : t \in Tickets}
  \cup {Frag("SetParam", "T1", NoItem, FALSE, s) : s \in OneStamp}
AddItemFrags ==
  {Frag("AddItem", None, i, FALSE, {}) : i \in {ItemA, ItemB, ItemC, ItemBad, ItemNoAmt, NoItem}}
  \cup {Frag("AddItem", None, ItemA, FALSE, s) : s \in OneStamp}
  \cup {Frag("AddItem", "T1", ItemA, FALSE, {})}
QueryRespFrags ==
  {Frag("Query(Response)", t, i, i # NoItem, {}) : t \in Tickets, i \in {NoItem, ItemB}}
OtherFrags ==
  {Frag("AddTender", None, ItemA, FALSE, {}),
   Frag("GetTriggeredPromotions", None, NoItem, FALSE, {}),
   Frag("Foo", None, NoItem, FALSE, {}),
   [Frag("Foo", None, NoItem, FALSE, {}) EXCEPT !.card = "c1"],
   Frag(None, None, NoItem, FALSE, {}),
   [Frag("AddItem", None, ItemA, FALSE, {}) EXCEPT !.parsed = FALSE]}

Frags == SetParamFrags \cup AddItemFrags \cup QueryRespFrags \cup OtherFrags

\* What the regular expressions of merge_transaction_info find in the
\* fragment's text (xml_str, msg_parser line 231-232 and 340).
TextOf(f) ==
  [PlainText EXCEPT
     !.ids = IF f.ticket = None THEN {} ELSE {f.ticket},
     !.cards = IF f.card = None THEN <<>> ELSE <<f.card>>,
     !.blocks = IF f.method = "AddItem" /\ f.item # NoItem
                THEN <<[plu |-> f.item.plu, name |-> f.item.name, dep |-> f.item.dep,
                        qty |-> f.item.qty, price |-> f.item.price,
                        amount |-> f.item.amount]>>
                ELSE <<>>,
     !.stamps = f.stamps]

(***************************************************************************)
(* msg_parser.parse_single_xml, PART 1: one iteration of the loop over     *)
(* session.findall('LPE') (lines 229-340).  Each branch yields the map,    *)
(* the current ticket and whether float() raised.                          *)
(***************************************************************************)
Out(txs, cur, raised) == [txs |-> txs, cur |-> cur, raised |-> raised]

\* scan_for_timestamps(subroot, rec) then lines 249-250 etc.
ScanAndSetTime(rec, f) == SetTimeIfUnset([rec EXCEPT !.timestamps = @ \cup f.stamps])

\* Lines 237-250.
GenSetParam(f, txs, cur) ==
  IF f.ticket = None THEN Out(txs, None, FALSE)
  ELSE LET t1 == init_transaction(f.ticket, txs)
       IN Out([t1 EXCEPT ![f.ticket] =
                 ScanAndSetTime([@ EXCEPT !.storeID = "S1"], f)], f.ticket, FALSE)

\* The item lines 255-270 append.
\* Variant, not the code: the amount is computed from quantity and price.
GenItemComputed(i) ==
  [plu |-> i.plu, name |-> i.name, depCode |-> i.dep, qty |-> Float(Attr(i.qty, "1")),
   price |-> IF i.sub # None THEN Float(i.sub) ELSE Float(Attr(i.price, "0")),
   amount |-> Float(Attr(i.qty, "1")) * Float(Attr(i.price, "0"))]

GenItem(i) ==
  [plu |-> i.plu, name |-> i.name, depCode |-> i.dep, qty |-> Float(Attr(i.qty, "1")),
   price |-> IF i.sub # None THEN Float(i.sub) ELSE Float(Attr(i.price, "0")),
   amount |-> Float(Attr(i.amount, "0"))]

GenItemConverts(i) ==
  /\ IsNumeric(Attr(i.amount, "0")) /\ IsNumeric(Attr(i.qty, "1"))
  /\ IsNumeric(Attr(i.price, "0"))
  /\ (i.sub # None => IsNumeric(i.sub))

\* Lines 251-273.
GenAddItem(f, txs, cur) ==
  IF f.item # NoItem /\ ~GenItemConverts(f.item) THEN Out(txs, cur, TRUE)
  ELSE Out([txs EXCEPT ![cur] =
              ScanAndSetTime(
                IF f.item = NoItem THEN @
                ELSE [@ EXCEPT !.items = Append(@, GenItem(f.item))], f)],
           cur, FALSE)

\* Lines 274-298 (AddTender; the fragment's item stands for TenderInfo).
GenAddTender(f, txs, cur) ==
  Out([txs EXCEPT ![cur] =
         ScanAndSetTime([@ EXCEPT !.tenders = Append(@, Float(f.item.amount))], f)],
      cur, FALSE)

\* Lines 299-307 (one DiscountLine with PromNumber "9").
GenPromotions(f, txs, cur) ==
  Out([txs EXCEPT ![cur] = ScanAndSetTime([@ EXCEPT !.promotions = @ \cup {"9"}], f)],
      cur, FALSE)

\* The item lines 320-335 append.
GenQueryItem(i) ==
  [plu |-> i.plu, name |-> "", depCode |-> i.dep, qty |-> Float(i.qty),
   price |-> Float(i.price),
   amount |-> IF Float(i.rew) = 0 THEN Float(i.price) * Float(i.qty) ELSE Float(i.rew)]

\* Lines 308-339.
GenQueryResponse(f, txs, cur) ==
  IF ~f.titems THEN Out(txs, cur, FALSE)
  ELSE LET est == cur = None /\ f.ticket # None
           cur1 == IF est THEN f.ticket ELSE cur
           t1 == IF est THEN init_transaction(f.ticket, txs) ELSE txs
       IN IF cur1 = None THEN Out(t1, cur1, FALSE)
          ELSE Out([t1 EXCEPT ![cur1] =
                      ScanAndSetTime([@ EXCEPT !.items = Append(@, GenQueryItem(f.item))], f)],
                   cur1, FALSE)

\* The if/elif chain of lines 237-339.
GenDispatch(f, txs, cur) ==
  IF f.method = "SetParam" /\ f.parsed THEN GenSetParam(f, txs, cur)
  ELSE IF f.method = "AddItem" /\ f.parsed /\ cur # None THEN GenAddItem(f, txs, cur)
  ELSE IF f.method = "AddTender" /\ f.parsed /\ cur # None THEN GenAddTender(f, txs, cur)
  ELSE IF f.method = "GetTriggeredPromotions" /\ f.parsed /\ cur # None
       THEN GenPromotions(f, txs, cur)
  ELSE IF f.method = "Query(Response)" /\ f.parsed THEN GenQueryResponse(f, txs, cur)
  ELSE Out(txs, cur, FALSE)

\* One loop iteration: the dispatch, then merge_transaction_info(xml_str)
\* (line 340), unless the dispatch raised.
GenLPE(f, txs, cur) ==
  LET d == GenDispatch(f, txs, cur)
      text == TextOf(f)
      m == merge_transaction_info(<<f.ticket>>, text, d.txs)
  IN IF d.raised THEN d ELSE Out(m.txs, d.cur, m.raised)

\* process_inline_xml_from_line hands a line's inline XML to
\* parse_single_xml, which is entered on a root that holds a Session
\* (msg_parser lines 226-228).
SessionStart ==
  /\ driver = "line" /\ status = "running" /\ ~in_session
  /\ nunits < MaxUnits
  /\ in_session' = TRUE
  /\ current_ticket' = None
  /\ UNCHANGED <<driver, status, nunits, transactions, session_dt>>
  /\ UNCHANGED <<multi_vars, scan_vars>>
  /\ UNCHANGED aux_vars

\* One LPE of the session.  An exception leaves parse_single_xml and is
\* caught by its caller (log_parsers_generic line 84, msg_parser line 518):
\* the rest of the session is not processed.
SessionStep(f) ==
  /\ in_session /\ status = "running"
  /\ nunits < MaxUnits
  /\ LET r == GenLPE(f, transactions, current_ticket)
     IN /\ transactions' = r.txs
        /\ current_ticket' = IF r.raised THEN None ELSE r.cur
        /\ in_session' = ~r.raised
  /\ nunits' = nunits + 1
  /\ UNCHANGED <<driver, status, session_dt>>
  /\ UNCHANGED <<multi_vars, scan_vars>>
  /\ UNCHANGED aux_vars

SessionLPE == \E f \in Frags : SessionStep(f)

\* The loop over the LPE elements ends; parse_single_xml returns.
SessionEnd ==
  /\ in_session /\ status = "running"
  /\ in_session' = FALSE
  /\ current_ticket' = None
  /\ UNCHANGED <<driver, status, nunits, transactions, session_dt>>
  /\ UNCHANGED <<multi_vars, scan_vars>>
  /\ UNCHANGED aux_vars

(***************************************************************************)
(* prom_parser: the vendor protocol driver.                                *)
(***************************************************************************)
\* prom_parser.init_transaction (lines 91-124).
NewPromRecord(txid) ==
  [trans_id |-> txid, storeID |-> None, card_id |-> None,
   promotions |-> {}, items |-> <<>>, item_keys |-> <<>>, tenders |-> <<>>,
   transaction_time |-> NoTime,
   raw_fragment_attributes |-> <<>>, other_fragments |-> <<>>,
   processed_fragments |-> {}]

\* Variant, not the code: a new transaction starts a new map.
prom_init_replacing(txid, txs) ==
  IF txid \in DOMAIN txs THEN txs
  ELSE [t \in {txid} |-> NewPromRecord(txid)]

prom_init_transaction(txid, txs) ==
  IF txid \in DOMAIN txs THEN txs
  ELSE [t \in DOMAIN txs \cup {txid} |->
          IF t = txid THEN NewPromRecord(txid) ELSE txs[t]]

\* str.strip() on the attribute strings of the model.
Strip(s) == IF s = " 100" THEN "100" ELSE s

\* get_item_key (lines 158-164); sha256 is one-to-one on the key strings.
get_item_key(i) ==
  Strip(Attr(i.plu, "")) \o "_" \o Strip(Attr(i.pos, "")) \o "_" \o Strip(Attr(i.dep, ""))

\* sha256(etree.tostring(fragment)): one-to-one on the fragments.
frag_hash(f) == f

\* float(s) with the fallback of a try/except ValueError (lines 224-248).
FloatOr(s, default) == IF IsNumeric(s) THEN Float(s) ELSE default

\* merge_extra_info (lines 137-153): CardID overwrites.
merge_extra_info(f, rec) ==
  IF f.card # None THEN [rec EXCEPT !.card_id = f.card] ELSE rec

\* "...['raw_fragment_attributes'].append(extract_all_attributes(elem))":
\* the captured element is named by its tag.
Capture(rec, tag) == [rec EXCEPT !.raw_fragment_attributes = Append(@, tag)]

\* "....setdefault('other_fragments', []).append({'method':..., 'raw':...})"
Keep(rec, f) ==
  [rec EXCEPT !.other_fragments = Append(@, [method |-> f.method, raw |-> f])]

\* Lines 181-196.
PromSetParam(f, txs, cur) ==
  IF f.ticket = None THEN Out(txs, cur, FALSE)
  ELSE LET t1 == prom_init_transaction(f.ticket, txs)
       IN Out([t1 EXCEPT ![f.ticket] =
                 Keep(Capture(merge_extra_info(f, [@ EXCEPT !.storeID = "S1"]),
                              "SystemParameters"), f)],
              f.ticket, FALSE)

\* item_data (lines 216-263).
PromItem(i) ==
  [plu |-> i.plu, name |-> i.name, depCode |-> i.dep, posSequence |-> i.pos,
   qty |-> FloatOr(Attr(i.qty, "1"), 1),
   price |-> IF i.sub # None THEN FloatOr(i.sub, FloatOr(Attr(i.price, "0"), 0))
             ELSE FloatOr(Attr(i.price, "0"), 0),
   amount |-> FloatOr(Attr(i.amount, "0"), 0),
   key |-> get_item_key(i)]

\* Lines 264-274: sum into the item the key names, or append and record.
KeyIndex(rec, key) == IF key \in DOMAIN rec.item_keys THEN rec.item_keys[key] ELSE 0

\* Variant, not the code: a matching key sums the quantity only.
MergeQtyOnly(rec, item) ==
  LET at == KeyIndex(rec, item.key)
  IN IF at # 0
     THEN [rec EXCEPT !.items[at].qty = @ + item.qty]
     ELSE [rec EXCEPT !.items = Append(@, item),
                      !.item_keys = [k \in DOMAIN @ \cup {item.key} |->
                                       IF k = item.key THEN Len(rec.items) + 1 ELSE @[k]]]

\* Variant, not the code: the position is taken before the item is appended.
MergeOrAppendIndexBefore(rec, item) ==
  LET at == KeyIndex(rec, item.key)
  IN IF at # 0
     THEN [rec EXCEPT !.items[at].qty = @ + item.qty,
                      !.items[at].amount = @ + item.amount]
     ELSE [rec EXCEPT !.items = Append(@, item),
                      !.item_keys = [k \in DOMAIN @ \cup {item.key} |->
                                       IF k = item.key THEN Len(rec.items) ELSE @[k]]]

\* Positions in items count from 1 here and from 0 in the code.
MergeOrAppendItem(rec, item) ==
  LET at == KeyIndex(rec, item.key)
  IN IF at # 0
     THEN [rec EXCEPT !.items[at].qty = @ + item.qty,
                      !.items[at].amount = @ + item.amount]
     ELSE [rec EXCEPT !.items = Append(@, item),
                      !.item_keys = [k \in DOMAIN @ \cup {item.key} |->
                                       IF k = item.key THEN Len(rec.items) + 1 ELSE @[k]]]

\* Lines 211-276.
PromAddItem(f, txs, cur) ==
  IF f.item = NoItem THEN Out(txs, cur, FALSE)
  ELSE Out([txs EXCEPT ![cur] =
              Capture(merge_extra_info(f, MergeOrAppendItem(@, PromItem(f.item))),
                      "ItemInfo")],
           cur, FALSE)

\* Lines 290-323: one TicketItems/Item, matched on (plu, depCode).
PromQueryItem(i) ==
  LET qty == FloatOr(i.qty, 1)
      price == FloatOr(i.price, 0)
      rew == FloatOr(i.rew, 0)
  IN [plu |-> i.plu, name |-> "", depCode |-> i.dep, posSequence |-> None,
      qty |-> qty, price |-> price,
      amount |-> IF rew = 0 THEN price * qty ELSE rew, key |-> None]

MergeQueryItem(rec, q) ==
  LET hits == {n \in 1..Len(rec.items) :
                 rec.items[n].plu = q.plu /\ rec.items[n].depCode = q.depCode}
  IN IF hits # {}
     THEN [rec EXCEPT !.items[Min(hits)].qty = @ + q.qty,
                      !.items[Min(hits)].amount = @ + q.amount]
     ELSE [rec EXCEPT !.items = Append(@, q)]

\* Lines 279-331.  Lines 330-331 index transactions[current_tx] whatever
\* current_tx is: with no current transaction they raise KeyError.
PromQueryResponse(f, txs, cur) ==
  LET est == f.ticket # None
      cur1 == IF est THEN f.ticket ELSE cur
      t1 == IF est
            THEN [prom_init_transaction(f.ticket, txs) EXCEPT ![f.ticket] =
                    Capture(merge_extra_info(f, @), "GeneralData")]
            ELSE txs
      t2 == IF f.titems /\ cur1 # None
            THEN [t1 EXCEPT ![cur1] =
                    Capture(merge_extra_info(f, MergeQueryItem(@, PromQueryItem(f.item))),
                            "TicketItems")]
            ELSE t1
  IN IF cur1 = None THEN Out(t2, cur1, TRUE)
     ELSE Out([t2 EXCEPT ![cur1] = Capture(merge_extra_info(f, @), "LPE")], cur1, FALSE)

\* Lines 350-364 (AddTender; the fragment's item stands for TenderInfo).
PromAddTender(f, txs, cur) ==
  Out([txs EXCEPT ![cur] =
         Capture(merge_extra_info(f, [@ EXCEPT !.tenders =
                                        Append(@, FloatOr(f.item.amount, 0))]),
                 "TenderInfo")],
      cur, FALSE)

\* Lines 392-399 (one DiscountLine with PromNumber "9").
PromPromotions(f, txs, cur) ==
  Out([txs EXCEPT ![cur] =
         Capture(merge_extra_info(f, [@ EXCEPT !.promotions = @ \cup {"9"}]), "LPE")],
      cur, FALSE)

\* Lines 428-435.
PromCatchAll(f, txs, cur) ==
  IF cur = None THEN Out(txs, cur, FALSE)
  ELSE Out([txs EXCEPT ![cur] = Capture(merge_extra_info(f, Keep(@, f)), "LPE")],
           cur, FALSE)

\* The if/elif chain of lines 181-435.  "method.startswith(...)" (line 392)
\* raises AttributeError when the LPE has no Method attribute.
PromDispatch(f, txs, cur) ==
  IF f.method = "SetParam" THEN PromSetParam(f, txs, cur)
  ELSE IF f.method = "AddItem" /\ cur # None THEN PromAddItem(f, txs, cur)
  ELSE IF f.method = "Query(Response)" THEN PromQueryResponse(f, txs, cur)
  ELSE IF f.method = "AddTender" /\ cur # None THEN PromAddTender(f, txs, cur)
  ELSE IF f.method = None THEN Out(txs, cur, TRUE)
  ELSE IF f.method = "GetTriggeredPromotions" /\ cur # None THEN PromPromotions(f, txs, cur)
  ELSE PromCatchAll(f, txs, cur)

\* Lines 172-178: the fragment was already recorded against current_tx.
IsDuplicate(f, txs, cur) ==
  cur # None /\ frag_hash(f) \in txs[cur].processed_fragments

RecordHash(f, txs, cur) ==
  IF cur = None THEN txs
  ELSE [txs EXCEPT ![cur].processed_fragments = @ \cup {frag_hash(f)}]

\* process_lpe_fragment (lines 170-447).
process_lpe_fragment(f, txs, cur) ==
  IF IsDuplicate(f, txs, cur) THEN Out(txs, cur, FALSE)
  ELSE PromDispatch(f, RecordHash(f, txs, cur), cur)

\* Variant, not the code: only the first transaction of the file takes the
\* session timestamp.
SessionFallbackFirstOnly(txs, cur, dt) ==
  IF /\ cur # None /\ dt # NoTime /\ txs[cur].transaction_time = NoTime
     /\ \A t \in DOMAIN txs : txs[t].transaction_time = NoTime
  THEN [txs EXCEPT ![cur].transaction_time = dt]
  ELSE txs

\* parse_prom_log lines 486-487: the session timestamp as a fallback.
SessionFallback(txs, cur, dt) ==
  IF cur # None /\ dt # NoTime /\ txs[cur].transaction_time = NoTime
  THEN [txs EXCEPT ![cur].transaction_time = dt]
  ELSE txs

\* The LPE elements of a prom file: live elements, no date scan.
PromFrags == {f \in Frags : f.parsed /\ f.stamps = {}}

\* One iteration of parse_prom_log's loop (lines 482-487); an exception
\* leaves parse_prom_log.
PromStep(f) ==
  /\ driver = "prom" /\ status = "running"
  /\ nunits < MaxUnits
  /\ LET r == process_lpe_fragment(f, transactions, current_ticket)
     IN IF r.raised
        THEN /\ transactions' = r.txs
             /\ status' = "raised"
             /\ UNCHANGED current_ticket
        ELSE /\ transactions' = SessionFallback(r.txs, r.cur, session_dt)
             /\ current_ticket' = r.cur
             /\ UNCHANGED status
  /\ nunits' = nunits + 1
  /\ UNCHANGED <<driver, in_session, session_dt>>
  /\ UNCHANGED <<multi_vars, scan_vars>>
  /\ UNCHANGED aux_vars

PromLPE == \E f \in PromFrags : PromStep(f)

(***************************************************************************)
(* log_parsers_generic.parse_multiple_logs over line-based files whose     *)
(* lines carry attribute text.                                             *)
(***************************************************************************)
\* One line of the current file: parse_generic_log merges it into the map
\* it created for this file (line 202).  The same line is merged into
\* shared_transactions, the map one shared run would hold.
MultiLineStep(text, order) ==
  /\ driver = "multi" /\ status = "running"
  /\ file_no <= MaxFiles /\ nunits < MaxUnits
  /\ LET r == merge_transaction_info(order, text, transactions)
         c == merge_transaction_info(order, text, shared_transactions)
     IN /\ transactions' = r.txs
        /\ shared_transactions' = c.txs
        /\ status' = IF r.raised THEN "raised" ELSE "running"
  /\ nunits' = nunits + 1
  /\ UNCHANGED <<driver, current_ticket, in_session, session_dt>>
  /\ UNCHANGED <<file_no, global_transactions, scan_vars>>
  /\ UNCHANGED aux_vars

\* The lines of the files: one transaction id each; a card, item blocks or
\* date/time values.
MultiTexts ==
  {t \in Texts : Cardinality(t.ids) = 1 /\ t.firsts = <<>> /\ t.phones = {}}

MultiLine ==
  \E text \in MultiTexts : \E order \in Orders(text.ids) : MultiLineStep(text, order)

\* Lines 264-269: the file's map is folded into the run's map; a txid the
\* run already holds keeps its record ("else: pass").
FoldInto(global, these) ==
  [t \in DOMAIN global \cup DOMAIN these |->
     IF t \in DOMAIN global THEN global[t] ELSE these[t]]

\* parse_generic_log returns; the next file starts with a new map.
MultiFileEnd ==
  /\ driver = "multi" /\ status = "running"
  /\ file_no <= MaxFiles
  /\ global_transactions' = FoldInto(global_transactions, transactions)
  /\ transactions' = <<>>
  /\ file_no' = file_no + 1
  /\ UNCHANGED <<driver, status, nunits, current_ticket, in_session, session_dt>>
  /\ UNCHANGED <<shared_transactions, scan_vars>>
  /\ UNCHANGED aux_vars

(***************************************************************************)
(* msg_parser.parse_big_xml: the single-root attempt and the fallback      *)
(* scanner (lines 462-520).  A text is a sequence of characters.           *)
(***************************************************************************)
Leaf == <<"<", "a", "/", ">">>
TextEl == <<"<", "a", ">", "t", "<", "/", "a", ">">>
Nested == <<"<", "a", ">">> \o Leaf \o <<"<", "/", "a", ">">>
\* The well-formed documents among the texts and their substrings.
Docs == {Leaf, TextEl, Nested}

\* Two sibling documents, with or without whitespace between them.
TwoDocTexts == {d1 \o sep \o d2 : d1 \in Docs, d2 \in Docs, sep \in {<<>>, <<" ">>}}

\* Texts that are no sequence of documents: an unclosed tag, text between
\* and after documents, a '<' inside a tag.
BrokenTexts ==
  {<<"<", "a">>, Leaf \o <<"t">> \o Leaf, Leaf \o <<" ", "t">>,
   <<"<">> \o Leaf \o <<">">>, <<"<", "a", ">">>}

\* What a Customer element's attributes hold: TransID and StartDateTime (a
\* time of NoTime: the element has no date/time attribute).
CustToks == {"T1@2", "T2@1", "T1@1", "T2@0"}
TokId(k) == IF k \in {"T1@2", "T1@1"} THEN "T1" ELSE "T2"
TokStamps(k) ==
  CASE k = "T1@2" -> {2} [] k = "T2@1" -> {1} [] k = "T1@1" -> {1} [] OTHER -> {}

\* <Customer TransID=.. StartDateTime=../>
CustLeaf(k) == <<"<", "c", k, "/", ">">>
\* One root with two Customer elements.
CustPair ==
  <<"<", "a", ">">> \o CustLeaf("T1@2") \o CustLeaf("T2@1") \o <<"<", "/", "a", ">">>
\* <ItemInfo .../> with an attribute float() rejects, alone and inside a
\* Customer element.
ItemLeaf == <<"<", "i", "bad", "/", ">">>
CustBad == <<"<", "c", "T1@2", ">">> \o ItemLeaf \o <<"<", "/", "c", ">">>
CustDocs == {CustLeaf(k) : k \in CustToks} \cup {CustPair, ItemLeaf, CustBad}

\* Files of Customer elements: one root, or two sibling roots.
CustTexts ==
  CustDocs \cup {CustLeaf(k1) \o CustLeaf(k2) : k1 \in CustToks, k2 \in CustToks}

ScanTexts == Docs \cup TwoDocTexts \cup BrokenTexts \cup CustTexts

isspace(c) == c = " "

\* str.strip().
RECURSIVE lstrip(_)
lstrip(t) == IF t # <<>> /\ isspace(Head(t)) THEN lstrip(Tail(t)) ELSE t
RECURSIVE rstrip(_)
rstrip(t) ==
  IF t # <<>> /\ isspace(t[Len(t)]) THEN rstrip(SubSeq(t, 1, Len(t) - 1)) ELSE t
strip(t) == lstrip(rstrip(t))

\* etree.fromstring succeeds: the text is one document.
WellFormed(t) == strip(t) \in Docs \cup CustDocs

\* text_str[i], 0-based, and len(text_str).
At(i) == text_str[i + 1]
length == Len(text_str)

\* Variant, not the code: the search starts at the beginning of the text.
find_from_start(c, i) ==
  LET hits == {k \in 0..(length - 1) : At(k) = c}
  IN IF hits = {} THEN -1 ELSE Min(hits)

\* text_str.find(c, i), 0-based; -1 when not found.
find(c, i) ==
  LET hits == {k \in i..(length - 1) : At(k) = c}
  IN IF hits = {} THEN -1 ELSE Min(hits)

\* The first position at or after i that holds no whitespace (lines 483-484).
SkipSpace(i) ==
  LET stops == {k \in i..(length - 1) : ~isspace(At(k))}
  IN IF stops = {} THEN length ELSE Min(stops)

\* parse_single_xml, PART 3, for one Customer element (lines 411-432).
CustStep(txs, k) ==
  LET t1 == init_transaction(TokId(k), txs)
      rec == ScanAndSetTime(t1[TokId(k)], [stamps |-> TokStamps(k)])
  IN [t1 EXCEPT ![TokId(k)] = MergeStamps(rec, TokStamps(k))]

RECURSIVE CustSteps(_, _)
CustSteps(txs, ks) ==
  IF ks = <<>> THEN txs ELSE CustSteps(CustStep(txs, Head(ks)), Tail(ks))

\* parse_single_xml on a document: the Customer elements in document order;
\* merge_transaction_info raises on the ItemInfo block inside a Customer.
ParseSingle(doc, txs) ==
  LET ks == SelectSeq(doc, LAMBDA c : c \in CustToks)
  IN [txs |-> CustSteps(txs, ks),
      raised |-> ks # <<>> /\ \E n \in 1..Len(doc) : doc[n] = "bad"]

\* Variant, not the code: the earliest time among all transactions.
earliest_tx_time(before_keys, txs) ==
  LET times == {txs[t].transaction_time : t \in DOMAIN txs} \ {NoTime}
  IN IF times = {} THEN NoTime ELSE Min(times)

\* Lines 453-460.
earliest_new_tx_time(before_keys, txs) ==
  LET new_keys == DOMAIN txs \ before_keys
      times == {txs[t].transaction_time : t \in new_keys} \ {NoTime}
  IN IF times = {} THEN NoTime ELSE Min(times)

\* A chunk the scan cut: whether it was parsed and yielded a row, and the
\* row's combined_ts.
Row(raw, ok, ts) == [raw |-> raw, parsed |-> ok, combined_ts |-> ts]

\* Lines 462-481: the whole file as one root; on failure the scan starts.
BigXmlWhole ==
  /\ driver = "scan" /\ pc = "whole"
  /\ IF WellFormed(text_str)
     THEN LET r == ParseSingle(text_str, transactions)
          IN /\ transactions' = r.txs
             /\ IF r.raised
                THEN /\ pc' = "outer"
                     /\ UNCHANGED chunks
                ELSE /\ chunks' = <<Row(text_str, TRUE,
                                        earliest_new_tx_time(DOMAIN transactions, r.txs))>>
                     /\ pc' = "done"
     ELSE /\ pc' = "outer"
          /\ UNCHANGED <<chunks, transactions>>
  /\ idx' = 0
  /\ UNCHANGED <<text_str, start_idx, bracket_count>>
  /\ UNCHANGED <<driver, status, nunits, current_ticket, in_session, session_dt>>
  /\ UNCHANGED multi_vars
  /\ UNCHANGED aux_vars

\* Lines 482-489: the head of one iteration of the outer loop.
ScanOuter ==
  /\ driver = "scan" /\ pc = "outer"
  /\ IF idx >= length
     THEN /\ pc' = "done"
          /\ UNCHANGED <<idx, start_idx, bracket_count>>
     ELSE LET i == SkipSpace(idx)
          IN IF i >= length \/ At(i) # "<"
             THEN /\ idx' = i
                  /\ pc' = "done"
                  /\ UNCHANGED <<start_idx, bracket_count>>
             ELSE /\ start_idx' = i
                  /\ bracket_count' = 1
                  /\ idx' = i + 1
                  /\ pc' = "inner"
  /\ UNCHANGED <<text_str, chunks>>
  /\ UNCHANGED <<file_vars, multi_vars>>
  /\ UNCHANGED aux_vars

\* Lines 490-503: one iteration of the inner loop.
ScanInner ==
  /\ driver = "scan" /\ pc = "inner"
  /\ IF idx >= length
     THEN /\ pc' = "cut"
          /\ UNCHANGED <<idx, bracket_count>>
     ELSE LET open_tag == find("<", idx)
              close_tag == find(">", idx)
          IN IF close_tag = -1
             THEN /\ idx' = length
                  /\ pc' = "cut"
                  /\ UNCHANGED bracket_count
             ELSE IF open_tag = -1 \/ open_tag > close_tag
             THEN /\ bracket_count' = bracket_count - 1
                  /\ idx' = close_tag + 1
                  /\ pc' = IF bracket_count - 1 = 0 THEN "cut" ELSE "inner"
             ELSE /\ bracket_count' = bracket_count + 1
                  /\ idx' = open_tag + 1
                  /\ pc' = "inner"
  /\ UNCHANGED <<text_str, start_idx, chunks>>
  /\ UNCHANGED <<file_vars, multi_vars>>
  /\ UNCHANGED aux_vars

\* Lines 504-520: the chunk is cut and parsed; a chunk that fails to parse
\* is skipped.
ScanCut ==
  /\ driver = "scan" /\ pc = "cut"
  /\ LET chunk == strip(SubSeq(text_str, start_idx + 1, idx))
     IN IF WellFormed(chunk)
        THEN LET r == ParseSingle(chunk, transactions)
             IN /\ transactions' = r.txs
                /\ chunks' = Append(chunks,
                     Row(chunk, ~r.raised,
                         IF r.raised THEN NoTime
                         ELSE earliest_new_tx_time(DOMAIN transactions, r.txs)))
        ELSE /\ chunks' = Append(chunks, Row(chunk, FALSE, NoTime))
             /\ UNCHANGED transactions
  /\ pc' = "outer"
  /\ UNCHANGED <<text_str, idx, start_idx, bracket_count>>
  /\ UNCHANGED <<driver, status, nunits, current_ticket, in_session, session_dt>>
  /\ UNCHANGED multi_vars
  /\ UNCHANGED aux_vars

(***************************************************************************)
(* log_parsers_generic.parse_line_based with the rows it yields and        *)
(* process_inline_xml_from_line with its CDATA continuation.  A line is    *)
(* what the code reads from it:                                            *)
(*   form    the grammar that matches: "bracket", "converter", "iso", or   *)
(*           "plain" when none does                                        *)
(*   dt      parse_datetime of the line's timestamp (NoTime: it failed, or *)
(*           the line has none)                                            *)
(*   level   the level the grammar captures (None on a plain line)         *)
(*   echo    RE_LPE_QUERY or RE_LPE_QUERY_RESPONSE finds a match           *)
(*   xml     the message (the line, when plain) holds "<?xml" or starts,   *)
(*           stripped, with "<"                                            *)
(*   lt      the line, stripped on the left, starts with "<" (the test of  *)
(*           the plain branch, line 177)                                   *)
(*   opens   the message holds "<![CDATA[" and no "]]>"                    *)
(*   closes  the line holds "]]>"                                          *)
(*   text    what the regular expressions of merge_transaction_info find   *)
(*   part    what the line's XML is of a document: "whole", its "head",    *)
(*           its "tail", or "none" (no markup)                             *)
(*   session the document holds a Session element                          *)
(*   lpes    the LPE elements the line's XML holds                         *)
(***************************************************************************)
Line(name, form, dt, level, echo, xml, opens, closes, ids, part, session, lpes) ==
  [name |-> name, form |-> form, dt |-> dt, level |-> level, echo |-> echo,
   xml |-> xml, lt |-> xml, opens |-> opens, closes |-> closes,
   text |-> [PlainText EXCEPT !.ids = ids],
   part |-> part, session |-> session, lpes |-> lpes]

\* An LPE element whose content is a CDATA block: the wrappers are removed
\* before the fragment is parsed (line 76), the content is no longer text
\* of the element, and its itertext() does not parse (msg_parser 233-236).
CdataLPE == [Frag("Foo", None, NoItem, FALSE, {}) EXCEPT !.parsed = FALSE]

\* [ts] [0x1f] [DEBUG] [LpeComm] - [<LogLine File="a.cpp"><![CDATA[GetCommStatus: 1]]></LogLine>]
LogLineBracket ==
  Line("logline", "bracket", 1, "DEBUG", FALSE, TRUE, FALSE, TRUE, {}, "whole", FALSE, <<>>)
\* [ts] [0x1f] [INFO] [Pos] - [TransID="T1" started]
BracketText ==
  Line("brackettext", "bracket", 2, "INFO", FALSE, FALSE, FALSE, FALSE, {"T1"}, "none", FALSE, <<>>)
\* A bracket line whose timestamp does not parse.
BracketNoTime ==
  Line("bracketnotime", "bracket", NoTime, "INFO", FALSE, FALSE, FALSE, FALSE, {}, "none", FALSE, <<>>)
\* ts - pos - INFO - <Log><Session><LPE Method="SetParam">&lt;SystemParameters
\* TicketNumber="T1"/&gt;</LPE><LPE Method="AddItem">&lt;ItemInfo .../&gt;</LPE></Session></Log>
IsoSession ==
  Line("isosession", "iso", MaxStamp, "INFO", FALSE, TRUE, FALSE, FALSE, {"T1"}, "whole", TRUE,
       <<Frag("SetParam", "T1", NoItem, FALSE, {}), Frag("AddItem", None, ItemA, FALSE, {})>>)
\* <Log><Session><LPE Method="SetParam">&lt;SystemParameters TicketNumber="T1"/&gt;</LPE></Session></Log>
PlainSession ==
  Line("plainsession", "plain", NoTime, None, FALSE, TRUE, FALSE, FALSE, {"T1"}, "whole", TRUE,
       <<Frag("SetParam", "T1", NoItem, FALSE, {})>>)
\* A line no grammar matches, without markup.
PlainLine ==
  Line("plainline", "plain", NoTime, None, FALSE, FALSE, FALSE, FALSE, {}, "none", FALSE, <<>>)
\* <Log><Session><LPE Method="SetParam">&lt;SystemParameters TicketNumber="T1"/&gt;</LPE><LPE Method="Foo"><![CDATA[abc
CdataHead ==
  Line("cdatahead", "plain", NoTime, None, FALSE, TRUE, TRUE, FALSE, {"T1"}, "head", TRUE,
       <<Frag("SetParam", "T1", NoItem, FALSE, {}), CdataLPE>>)
\* ]]></LPE></Session></Log>
CdataTail ==
  Line("cdatatail", "plain", NoTime, None, FALSE, FALSE, FALSE, TRUE, {}, "tail", FALSE, <<>>)
\* ]]></LPE><LPE Method="Query(Response)">&lt;R&gt;&lt;GeneralData TicketNumber="T2"/&gt;
\* &lt;TicketItems&gt;&lt;Item .../&gt;&lt;/TicketItems&gt;&lt;/R&gt;</LPE></Session></Log>
EchoTail ==
  Line("echotail", "plain", NoTime, None, TRUE, FALSE, FALSE, TRUE, {"T2"}, "tail", FALSE,
       <<Frag("Query(Response)", "T2", ItemB, TRUE, {})>>)

\* [ts] [0x1f] [INFO] [Pos] - [note <![CDATA[ x]
TextCdata ==
  Line("textcdata", "bracket", 1, "INFO", FALSE, FALSE, TRUE, FALSE, {}, "none", FALSE, <<>>)
\* [ts] [0x1f] [INFO] [Pos] - [TransID="T1" <ItemInfo PluCode="100" Quantity="x" .../>]
BracketBadItem ==
  [Line("bracketbaditem", "bracket", 1, "INFO", FALSE, FALSE, FALSE, FALSE, {"T1"}, "none",
        FALSE, <<>>) EXCEPT !.text.blocks = <<BadBlock>>]
\* data <?xml version="1.0"?><Log/>
DeclInside ==
  [Line("declinside", "plain", NoTime, None, FALSE, TRUE, FALSE, FALSE, {}, "broken",
        FALSE, <<>>) EXCEPT !.lt = FALSE]

Lines ==
  {LogLineBracket, BracketText, BracketNoTime, IsoSession, PlainSession, PlainLine,
   CdataHead, CdataTail, EchoTail, TextCdata, BracketBadItem, DeclInside}

\* etree.fromstring on the gathered fragment, CDATA wrappers removed
\* (lines 76-78): one whole document, or a head closed by a tail.  What the
\* lines between them hold is content of the element the head left open; a
\* second head leaves a CDATA block open, and the parse fails.
FragmentParses(acc) ==
  \/ Len(acc) = 1 /\ acc[1].part = "whole"
  \/ /\ Len(acc) >= 2
     /\ acc[1].part = "head" /\ acc[Len(acc)].part = "tail"
     /\ \A n \in 2..(Len(acc) - 1) : acc[n].part \in {"none", "whole"}

\* The LPE elements of the gathered fragment.  A line between head and tail
\* is text of the LPE the head left open: the ids it names are found by
\* merge_transaction_info(xml_str) (msg_parser line 340).
RECURSIVE FragmentLPEs(_)
FragmentLPEs(acc) ==
  IF acc = <<>> THEN <<>>
  ELSE LET before == FragmentLPEs(SubSeq(acc, 1, Len(acc) - 1))
           l == acc[Len(acc)]
       IN IF Len(acc) = 1 \/ l.part = "tail" THEN before \o l.lpes
          ELSE IF l.text.ids = {} \/ before = <<>> THEN before
          ELSE [before EXCEPT ![Len(before)].ticket = CHOOSE t \in l.text.ids : TRUE]

\* The loop of parse_single_xml over the LPE elements of a Session, the
\* current ticket starting at None; an exception ends it.
RECURSIVE RunSession(_, _, _)
RunSession(lpes, txs, cur) ==
  IF lpes = <<>> THEN txs
  ELSE LET r == GenLPE(Head(lpes), txs, cur)
       IN IF r.raised THEN r.txs ELSE RunSession(Tail(lpes), r.txs, r.cur)

\* Lines 76-86: the fragment is parsed and handed to parse_single_xml; every
\* exception is caught.
InlineXml(acc, txs) ==
  IF FragmentParses(acc) /\ acc[1].session
  THEN RunSession(FragmentLPEs(acc), txs, None)
  ELSE txs

\* The timestamp and the flag of the row of line l (lines 112-131, 134-152,
\* 155-172, 175-189).  last_ts does not change while a block is gathered, so
\* the row of the line that opened it is the same when it is yielded.
RowTime(l) ==
  IF l.form = "plain"
  THEN (IF l.lt /\ last_ts # NoTime THEN last_ts ELSE NoTime)
  ELSE l.dt
RowFlag(l) ==
  IF l.form = "plain" THEN l.lt /\ last_ts # NoTime ELSE l.xml

LineRow(l) ==
  [raw_line |-> l, combined_ts |-> RowTime(l), log_level |-> l.level,
   trans_ids |-> {}, is_transaction |-> RowFlag(l)]

\* The order "for txid in set(trans_ids)" visits at most one id in.
OneOrder(S) == IF S = {} THEN <<>> ELSE <<CHOOSE t \in S : TRUE>>

\* Variant, not the code: a matched line whose timestamp does not parse
\* clears the carried timestamp.
NextLastTsReset(l, ts) == IF l.form # "plain" THEN l.dt ELSE ts

\* "last_ts = dt_obj if dt_obj else last_ts" (lines 117, 138, 159).
NextLastTs(l, ts) == IF l.form # "plain" /\ l.dt # NoTime THEN l.dt ELSE ts

\* Variant, not the code: any message with an open CDATA marker is continued.
BlockOpenAnyMessage(l) == l.opens

\* Lines 65-69: the message looks like XML and holds "<![CDATA[" without
\* "]]>": the following lines are gathered.
BlockOpen(l) == l.xml /\ l.opens

\* One iteration of the loop of parse_line_based (lines 100-189).  When the
\* message opens a CDATA block the row waits until the block is gathered.
ReadLine(l) ==
  /\ driver = "rows" /\ status = "running" /\ accum = <<>>
  /\ nunits < MaxUnits
  /\ nunits' = nunits + 1
  /\ IF l.echo
     THEN UNCHANGED <<status, transactions, rows, last_ts, accum>>
     ELSE LET m == merge_transaction_info(OneOrder(l.text.ids), l.text, transactions)
          IN /\ last_ts' = NextLastTs(l, last_ts)
             /\ IF m.raised
                THEN /\ status' = "raised"
                     /\ transactions' = m.txs
                     /\ UNCHANGED <<rows, accum>>
                ELSE IF BlockOpen(l)
                THEN /\ accum' = <<l>>
                     /\ transactions' = m.txs
                     /\ UNCHANGED <<status, rows>>
                ELSE /\ transactions' = IF l.xml THEN InlineXml(<<l>>, m.txs) ELSE m.txs
                     /\ rows' = Append(rows, LineRow(l))
                     /\ UNCHANGED <<status, accum>>
  /\ UNCHANGED <<driver, current_ticket, in_session, session_dt>>
  /\ UNCHANGED <<multi_vars, scan_vars, route_vars, sink_vars>>

\* One iteration of the loop of process_inline_xml_from_line over the
\* following lines (lines 70-73); the line that holds "]]>" ends it.
AccumLine(l) ==
  /\ driver = "rows" /\ status = "running" /\ accum # <<>>
  /\ nunits < MaxUnits
  /\ nunits' = nunits + 1
  /\ IF l.closes
     THEN /\ transactions' = InlineXml(Append(accum, l), transactions)
          /\ rows' = Append(rows, LineRow(accum[1]))
          /\ accum' = <<>>
     ELSE /\ accum' = Append(accum, l)
          /\ UNCHANGED <<transactions, rows>>
  /\ UNCHANGED <<driver, status, current_ticket, in_session, session_dt, last_ts>>
  /\ UNCHANGED <<multi_vars, scan_vars, route_vars, sink_vars>>

\* The file ends: an open block is parsed as far as it was gathered, the
\* row of its first line is yielded, and parse_line_based returns.
LineFileEnd ==
  /\ driver = "rows" /\ status = "running"
  /\ status' = "done"
  /\ IF accum # <<>>
     THEN /\ transactions' = InlineXml(accum, transactions)
          /\ rows' = Append(rows, LineRow(accum[1]))
          /\ accum' = <<>>
     ELSE UNCHANGED <<transactions, rows, accum>>
  /\ UNCHANGED <<driver, nunits, current_ticket, in_session, session_dt, last_ts>>
  /\ UNCHANGED <<multi_vars, scan_vars, route_vars, sink_vars>>

ReadAnyLine == \E l \in Lines : ReadLine(l)
AccumAnyLine == \E l \in Lines : AccumLine(l)

(***************************************************************************)
(* db_manager_generic.GenericDBManager.upsert_transaction: the parent row  *)
(* and the item rows.                                                      *)
(***************************************************************************)
\* tx_data['explicit_total']: <<>> stands for None, <<v>> for the number v.
Totals == {<<>>, <<0 - 5>>, <<0>>, <<7>>}

\* tx_data['items'].
ItemLists ==
  {<<>>,
   <<[plu |-> "100", amount |-> 3]>>,
   <<[plu |-> "100", amount |-> 3], [plu |-> "200", amount |-> 2]>>}

TxData ==
  [trans_id : TxIds, explicit_total : Totals, items : ItemLists]

RECURSIVE sum_amounts(_)
sum_amounts(items) ==
  IF items = <<>> THEN 0 ELSE Head(items).amount + sum_amounts(Tail(items))

\* Line 347: tx_data.get('explicit_total') or 0.0.
TotalOrZero(t) == IF t = <<>> THEN 0 ELSE t[1]

\* Lines 344-348.
total_amt(tx_data) ==
  LET explicit_total == TotalOrZero(tx_data.explicit_total)
  IN IF explicit_total > 0 THEN explicit_total ELSE sum_amounts(tx_data.items)

\* Lines 365-385: INSERT ... ON CONFLICT(trans_id) DO UPDATE.
ParentRow(tx_data) ==
  [trans_id |-> tx_data.trans_id, item_count |-> Len(tx_data.items),
   total_amount |-> total_amt(tx_data)]

\* Variant, not the code: a plain INSERT into a table without the UNIQUE
\* constraint.
InsertParent(table, row) == Append(table, row)

\* INSERT ... ON CONFLICT(trans_id) DO UPDATE SET ... on the table whose
\* trans_id is UNIQUE (lines 57-59, 365-381): the row that holds the
\* trans_id takes the new values in its place, or the row is appended.
UpsertParent(table, row) ==
  IF \E n \in DOMAIN table : table[n].trans_id = row.trans_id
  THEN [n \in DOMAIN table |->
          IF table[n].trans_id = row.trans_id THEN row ELSE table[n]]
  ELSE Append(table, row)

\* Lines 387-402: one INSERT per item.
ItemRows(tx_data) ==
  [n \in 1..Len(tx_data.items) |->
     [trans_id |-> tx_data.trans_id, plu |-> tx_data.items[n].plu,
      amount |-> tx_data.items[n].amount]]

upsert_transaction(tx_data) ==
  /\ driver = "sink" /\ status = "running"
  /\ nunits < MaxUnits
  /\ nunits' = nunits + 1
  /\ generic_transactions' = UpsertParent(generic_transactions, ParentRow(tx_data))
  /\ generic_items' = generic_items \o ItemRows(tx_data)
  /\ UNCHANGED <<driver, status, transactions, current_ticket, in_session, session_dt>>
  /\ UNCHANGED <<multi_vars, scan_vars, route_vars, row_vars>>

Upsert == \E tx_data \in TxData : upsert_transaction(tx_data)

(***************************************************************************)
(* log_parsers_generic.parse_generic_log: the choice of the driver          *)
(* (lines 207-233).  A base name is a sequence of characters; a content is  *)
(* a sequence of tokens: "<?xml", "<Root", "<Customer", "<a" (another       *)
(* tag), "text" and " " (whitespace).                                       *)
(***************************************************************************)
\* str.lower() on the characters of the names.
LowerOf(c) ==
  CASE c = "P" -> "p" [] c = "R" -> "r" [] c = "O" -> "o" [] c = "M" -> "m"
    [] c = "X" -> "x" [] c = "L" -> "l" [] OTHER -> c
lower(t) == [n \in 1..Len(t) |-> LowerOf(t[n])]

\* re.match(r'^prom.*\.xml$', t) on a name without line breaks.
MatchesProm(t) ==
  /\ Len(t) >= 8
  /\ SubSeq(t, 1, 4) = <<"p", "r", "o", "m">>
  /\ SubSeq(t, Len(t) - 3, Len(t)) = <<".", "x", "m", "l">>

\* Variant, not the code: the name is matched as it is written.
IsPromFileCased(name) == MatchesProm(name)

\* Line 207-210.
IsPromFile(name) == MatchesProm(lower(name))

\* first_chunk.lstrip().startswith("<?xml") (line 229).
StartsWithDecl(chunk) ==
  LET t == lstrip(chunk) IN t # <<>> /\ Head(t) = "<?xml"

Holds(chunk, tok) == \E n \in 1..Len(chunk) : chunk[n] = tok

\* Variant, not the code: only the XML declaration is looked for.
LooksLikeXmlDeclOnly(chunk) == StartsWithDecl(chunk)

\* Line 229.
LooksLikeXml(chunk) ==
  StartsWithDecl(chunk) \/ Holds(chunk, "<Root") \/ Holds(chunk, "<Customer")

\* ftest.read(2048) (line 226).
FirstChunk(c) == SubSeq(c, 1, IF Len(c) < ChunkLen THEN Len(c) ELSE ChunkLen)

\* The driver parse_generic_log runs (lines 210-233): "prom" the vendor
\* driver, "scan" parse_big_xml, "line" parse_line_based.
Route(name, c) ==
  IF IsPromFile(name) THEN "prom"
  ELSE IF LooksLikeXml(FirstChunk(c)) THEN "scan"
  ELSE "line"

NamePrefixes == {<<"p", "r", "o", "m">>, <<"P", "R", "O", "M">>,
                 <<"P", "r", "o", "m">>, <<"x", "p", "r", "o", "m">>, <<"p", "r", "o">>}
NameMiddles == {<<>>, <<"_", "1">>}
NameSuffixes == {<<".", "x", "m", "l">>, <<".", "X", "M", "L">>, <<".", "l", "o", "g">>,
                 <<"x", "m", "l">>, <<".", "x", "m", "l", ".", "1">>}
Names == {a \o b \o c : a \in NamePrefixes, b \in NameMiddles, c \in NameSuffixes}

Tokens == {"<?xml", "<Root", "<Customer", "<a", "text", " "}
RECURSIVE SeqsUpTo(_, _)
SeqsUpTo(S, n) ==
  IF n = 0 THEN {<<>>}
  ELSE LET shorter == SeqsUpTo(S, n - 1)
       IN shorter \cup {Append(t, x) : t \in shorter, x \in S}
Contents == SeqsUpTo(Tokens, MaxContent)

\* parse_generic_log picks the driver of the file.
RouteFile ==
  /\ driver = "unrouted"
  /\ driver' = Route(file_name, content)
  /\ UNCHANGED <<status, nunits, transactions, current_ticket, in_session, session_dt>>
  /\ UNCHANGED <<multi_vars, scan_vars, aux_vars>>

\* The variables of the drivers before any of them has run.
Fresh ==
  /\ status = "running"
  /\ nunits = 0
  /\ transactions = <<>>
  /\ current_ticket = None
  /\ in_session = FALSE
  /\ file_no = 1
  /\ global_transactions = <<>>
  /\ shared_transactions = <<>>
  /\ idx = 0
  /\ start_idx = 0
  /\ bracket_count = 0
  /\ chunks = <<>>
  /\ rows = <<>>
  /\ last_ts = NoTime
  /\ accum = <<>>
  /\ generic_transactions = <<>>
  /\ generic_items = <<>>

Init ==
  /\ driver \in {"line", "prom", "multi", "scan"}
  /\ session_dt \in (IF driver = "prom" THEN Stamps \cup {NoTime} ELSE {NoTime})
  /\ Fresh
  /\ pc = IF driver = "scan" THEN "whole" ELSE "idle"
  /\ text_str \in (IF driver = "scan" THEN ScanTexts ELSE {<<>>})
  /\ file_name = <<>>
  /\ content = <<>>

Next ==
  \/ LineMerge \/ SessionStart \/ SessionLPE \/ SessionEnd
  \/ PromLPE
  \/ MultiLine \/ MultiFileEnd
  \/ BigXmlWhole \/ ScanOuter \/ ScanInner \/ ScanCut

Spec == Init /\ [][Next]_vars

\* parse_big_xml alone; the statements of the function run one after the
\* other until it returns, so its steps are taken as long as one is enabled.
InitScan == Init /\ driver = "scan"
NextScan == BigXmlWhole \/ ScanOuter \/ ScanInner \/ ScanCut
SpecScan == InitScan /\ [][NextScan]_vars /\ WF_vars(NextScan)

\* The line driver on a file whose lines hold no inline XML: every step is
\* the text merge of one line.
InitLine == Init /\ driver = "line"
NextLine == LineMerge
SpecLine == InitLine /\ [][NextLine]_vars

\* parse_line_based on one file, with the rows it yields.
InitRows ==
  /\ driver = "rows"
  /\ session_dt = NoTime
  /\ Fresh
  /\ pc = "idle"
  /\ text_str = <<>>
  /\ file_name = <<>>
  /\ content = <<>>
NextRows == ReadAnyLine \/ AccumAnyLine \/ LineFileEnd
SpecRows == InitRows /\ [][NextRows]_vars

\* A run of upsert_transaction calls on an empty database.
InitSink ==
  /\ driver = "sink"
  /\ session_dt = NoTime
  /\ Fresh
  /\ pc = "idle"
  /\ text_str = <<>>
  /\ file_name = <<>>
  /\ content = <<>>
NextSink == Upsert
SpecSink == InitSink /\ [][NextSink]_vars

\* parse_generic_log up to the choice of the driver, for every name and
\* content.
InitRoute ==
  /\ driver = "unrouted"
  /\ session_dt = NoTime
  /\ Fresh
  /\ pc = "idle"
  /\ text_str = <<>>
  /\ file_name \in Names
  /\ content \in Contents
NextRoute == RouteFile
SpecRoute == InitRoute /\ [][NextRoute]_vars

(***************************************************************************)
(* Claims.                                                                 *)
(***************************************************************************)
Recs == DOMAIN transactions
HasStampSet == driver \in {"line", "multi"}

\* C1: once a transaction's transaction_time is non-null, no step of any
\* driver (text merge, Session/LPE fragment, vendor fragment) changes it or
\* drops the transaction while the file is parsed, and no step changes it
\* in the combined map of a multi-file run.
C1_TimeNeverChanges ==
  [][/\ file_no' = file_no =>
          \A t \in Recs :
            transactions[t].transaction_time # NoTime =>
              /\ t \in DOMAIN transactions'
              /\ transactions'[t].transaction_time = transactions[t].transaction_time
     /\ \A t \in DOMAIN global_transactions :
          global_transactions[t].transaction_time # NoTime =>
            /\ t \in DOMAIN global_transactions'
            /\ global_transactions'[t].transaction_time =
                 global_transactions[t].transaction_time]_vars

\* A transaction whose time was assigned and that later received a smaller
\* timestamp.
C1_Witness ==
  /\ HasStampSet
  /\ \E t \in Recs : \E s \in transactions[t].timestamps :
       transactions[t].transaction_time # NoTime /\ s < transactions[t].transaction_time

MinOrNoTime(S) == IF S = {} THEN NoTime ELSE Min(S)

PromAddItemStep(f) ==
  /\ PromStep(f)
  /\ f.method = "AddItem" /\ f.item # NoItem
  /\ current_ticket # None
  /\ ~IsDuplicate(f, transactions, current_ticket)

\* C3: in the vendor driver an AddItem fragment whose (plu, posSequence,
\* depCode) key is already recorded for the current transaction is summed
\* into that item (qty and amount added, every other field and every other
\* item kept, no item appended); a fragment with a new key appends one item
\* carrying the fragment's fields.
C3_VendorItemMergeAdditive ==
  [][\A f \in PromFrags :
       PromAddItemStep(f) =>
         LET old == transactions[current_ticket]
             new == transactions'[current_ticket]
             it == PromItem(f.item)
             at == KeyIndex(old, it.key)
         IN IF at # 0
            THEN /\ Len(new.items) = Len(old.items)
                 /\ new.items[at] =
                      [old.items[at] EXCEPT !.qty = @ + it.qty, !.amount = @ + it.amount]
                 /\ \A n \in 1..Len(old.items) : n # at => new.items[n] = old.items[n]
            ELSE /\ new.items = Append(old.items, it)
                 /\ KeyIndex(new, it.key) = Len(new.items)]_vars

\* ItemA then ItemB (same key, qty 1 and 2, amount 3 and 5) under one
\* transaction: a single item with the sums and ItemA's name and price.
C3_Witness ==
  /\ driver = "prom"
  /\ \E t \in Recs :
       /\ Len(transactions[t].items) = 1
       /\ transactions[t].items[1].qty = 3 /\ transactions[t].items[1].amount = 8
       /\ transactions[t].items[1].name = "a" /\ transactions[t].items[1].price = 3
       /\ transactions[t].items[1].posSequence = "1"

\* The step processes, in the Session/LPE loop, an AddItem fragment whose
\* ItemInfo converts, under a current ticket.
GenAddItemStep(f) ==
  /\ SessionStep(f)
  /\ f.method = "AddItem" /\ f.parsed /\ f.item # NoItem
  /\ GenItemConverts(f.item)
  /\ current_ticket # None

\* C4 (as stated): in the Session/LPE loop an AddItem fragment whose
\* (plu, depCode) equals that of an item an earlier AddItem fragment gave
\* the current ticket adds no item; its qty and amount are summed into the
\* item held.
C4_GenericItemMergeAdditive ==
  [][\A f \in Frags :
       GenAddItemStep(f) =>
         LET old == transactions[current_ticket]
             new == transactions'[current_ticket]
             hits == {n \in 1..Len(old.items) :
                        /\ old.items[n].plu = f.item.plu
                        /\ old.items[n].depCode = f.item.dep
                        /\ \E g \in AddItemFrags :
                             /\ g.item # NoItem /\ GenItemConverts(g.item)
                             /\ old.items[n] = GenItem(g.item)}
         IN hits # {} =>
              /\ Len(new.items) = Len(old.items)
              /\ \E n \in hits :
                   /\ new.items[n].qty = old.items[n].qty + Float(f.item.qty)
                   /\ new.items[n].amount = old.items[n].amount + Float(f.item.amount)]_vars

\* C5 (as stated): after the vendor driver has processed a fragment,
\* processing the same fragment again changes no field of any transaction
\* and raises nothing, whatever the fragment's method.
C5_VendorRefeedChangesNothing ==
  [][\A f \in PromFrags :
       (PromStep(f) /\ status' = "running") =>
         LET again == process_lpe_fragment(f, transactions', current_ticket')
         IN /\ ~again.raised
            /\ SessionFallback(again.txs, again.cur, session_dt) = transactions']_vars

\* C6 (as stated): when the run over the files has ended, the combined map
\* holds for every transaction id the record that merging all the files'
\* lines into one shared map produces.
C6_MultiFileAsConcatenated ==
  (driver = "multi" /\ status = "running" /\ file_no > MaxFiles) =>
    global_transactions = shared_transactions

\* C7 (as stated): after a line's text was merged, merging the same text
\* again (the ids visited in the same order) leaves the map as it is.
C7_TextMergeIdempotent ==
  [][status' = "running" =>
     \A text \in Texts : \A order \in Orders(text.ids) :
       LineStep(text, order) =>
         merge_transaction_info(order, text, transactions').txs = transactions']_vars

\* The items the <ItemInfo> blocks of a text stand for.
BlockItems(text) == [n \in 1..Len(text.blocks) |-> TextItem(text.blocks[n])]

\* C7 (amended): after a line's text was merged without error, merging the
\* same text again leaves every field of every transaction as it is except
\* items: each transaction the text names gets one further item per
\* <ItemInfo> block of the text, so the map is unchanged exactly for texts
\* without such blocks.
C7_TextMergeIdempotentExceptItems ==
  [][status' = "running" =>
     \A text \in Texts : \A order \in Orders(text.ids) :
       LineStep(text, order) =>
         LET again == merge_transaction_info(order, text, transactions')
         IN /\ ~again.raised
            /\ DOMAIN again.txs = DOMAIN transactions'
            /\ \A t \in DOMAIN transactions' :
                 /\ [again.txs[t] EXCEPT !.items = <<>>] =
                      [transactions'[t] EXCEPT !.items = <<>>]
                 /\ again.txs[t].items =
                      IF t \in text.ids
                      THEN transactions'[t].items \o BlockItems(text)
                      ELSE transactions'[t].items]_vars

\* A line file whose lines gave one transaction a card, an item and a
\* timestamp: every group of fields the text merge writes was merged.
C7_Witness ==
  /\ driver = "line" /\ status = "running"
  /\ \E t \in Recs :
       /\ transactions[t].card_id # None
       /\ transactions[t].items # <<>>
       /\ transactions[t].timestamps # {}

\* C8 (as stated): no exception leaves the driver of a file: whatever unit
\* fails, the driver goes on to the following units.
C8_NoUnitAbortsFile == status = "running"

\* The methods that establish no transaction, on a fragment that names no
\* ticket ("Foo" stands for the methods no branch names).
NonEstablishing(f) ==
  /\ f.ticket = None
  /\ f.method \in {"AddItem", "AddTender", "GetTriggeredPromotions", "Query(Response)", "Foo"}

\* C9 (as stated): a fragment that establishes no transaction and arrives
\* while there is no current transaction changes no record and raises no
\* error, in the Session/LPE loop and in the vendor driver.
C9_NoContextSkipped ==
  [][\A f \in Frags :
       (NonEstablishing(f) /\ current_ticket = None /\ (SessionStep(f) \/ PromStep(f))) =>
         /\ transactions' = transactions
         /\ status' = "running"
         /\ in_session' = in_session]_vars

\* A text without its whitespace.
RECURSIVE NoSpace(_)
NoSpace(t) ==
  IF t = <<>> THEN <<>>
  ELSE IF isspace(Head(t)) THEN NoSpace(Tail(t))
  ELSE <<Head(t)>> \o NoSpace(Tail(t))

\* C10 (as stated): for a text of two well-formed sibling documents the
\* scan ends with exactly two chunks, each of which parses, whose
\* concatenation is the text up to whitespace.
C10_TwoDocsTwoChunks ==
  (driver = "scan" /\ pc = "done" /\ text_str \in TwoDocTexts) =>
    /\ Len(chunks) = 2
    /\ chunks[1].parsed /\ chunks[2].parsed
    /\ NoSpace(chunks[1].raw \o chunks[2].raw) = NoSpace(text_str)

\* str.upper() on the characters of the names.
UpperOf(c) ==
  CASE c = "p" -> "P" [] c = "r" -> "R" [] c = "o" -> "O" [] c = "m" -> "M"
    [] c = "x" -> "X" [] c = "l" -> "L" [] OTHER -> c

\* The name is prom*.xml up to the case of its letters.
IsPromGlob(name) ==
  /\ Len(name) >= 8
  /\ [n \in 1..4 |-> UpperOf(name[n])] = <<"P", "R", "O", "M">>
  /\ [n \in 1..4 |-> UpperOf(name[Len(name) - 4 + n])] = <<".", "X", "M", "L">>

\* C11: a file whose base name is prom*.xml, in any case of its letters, is
\* given to the vendor driver whatever its content, a file with another
\* name never is, and every file is given to exactly one of the three
\* drivers.
C11_PromNameRoutesToVendor ==
  driver # "unrouted" =>
    /\ driver \in {"prom", "scan", "line"}
    /\ (driver = "prom") = IsPromGlob(file_name)

\* A name written in capitals, with XML content, was given to the vendor
\* driver.
C11_Witness ==
  /\ driver = "prom"
  /\ SubSeq(file_name, 1, 4) = <<"P", "R", "O", "M">>
  /\ content # <<>> /\ content[1] = "<?xml"

\* C12 (as stated): of the files not named prom*.xml, one that starts with
\* <?xml is given to the big-XML driver and one that starts with plain text
\* to the line driver, whatever follows.
C12_SniffByFirstToken ==
  (driver # "unrouted" /\ ~IsPromGlob(file_name) /\ content # <<>>) =>
    /\ content[1] = "<?xml" => driver = "scan"
    /\ content[1] = "text" => driver = "line"

\* C12 (amended): of the files not named prom*.xml, one is given to the
\* big-XML driver exactly when its first ChunkLen tokens start, after
\* leading whitespace, with <?xml or hold <Root or <Customer anywhere; every
\* other file, plain text included, is given to the line driver.
C12_SniffByDeclOrRootTag ==
  (driver # "unrouted" /\ ~IsPromGlob(file_name)) =>
    LET chunk == FirstChunk(content)
        k == CHOOSE k \in 1..(Len(chunk) + 1) :
               /\ \A n \in 1..(k - 1) : chunk[n] = " "
               /\ k <= Len(chunk) => chunk[k] # " "
        xml == \/ (k <= Len(chunk) /\ chunk[k] = "<?xml")
               \/ \E n \in 1..Len(chunk) : chunk[n] \in {"<Root", "<Customer"}
    IN driver = IF xml THEN "scan" ELSE "line"

\* A file that starts with plain text was given to the big-XML driver.
C12_Witness ==
  /\ driver = "scan"
  /\ content # <<>> /\ content[1] = "text"
\* C13 (as stated): in parse_line_based a line that the echo filter matches
\* yields no row and merges nothing, wherever it is read: in the main loop,
\* or as a line that follows one that opened a CDATA block, where it has the
\* effect of a bare closing line.
C13_EchoLineHasNoEffect ==
  [][\A l \in Lines :
       l.echo =>
         /\ ReadLine(l) => rows' = rows /\ transactions' = transactions
         /\ AccumLine(l) =>
              /\ \A n \in DOMAIN rows' : rows'[n].raw_line # l
              /\ transactions' = InlineXml(Append(accum, CdataTail), transactions)]_vars

\* The line carried a transaction fragment: a Session with LPE elements.
CarriesFragment(l) == l.session /\ l.lpes # <<>>

\* C14 (as stated): the bracket line whose message is a LogLine element
\* yields exactly one row, with log_level "DEBUG" and is_transaction FALSE;
\* and only rows of lines that carried a transaction fragment have
\* is_transaction TRUE.
C14_LogLineRowIsNotTransaction ==
  /\ [][ReadLine(LogLineBracket) =>
          /\ Len(rows') = Len(rows) + 1
          /\ rows'[Len(rows')].raw_line = LogLineBracket
          /\ rows'[Len(rows')].log_level = "DEBUG"
          /\ ~rows'[Len(rows')].is_transaction]_vars
  /\ [](\A n \in DOMAIN rows :
          rows[n].is_transaction => CarriesFragment(rows[n].raw_line))

\* The line names transaction t, in its text or in a fragment it carries.
Mentions(l, t) == t \in l.text.ids \/ \E n \in DOMAIN l.lpes : l.lpes[n].ticket = t

\* C20 (as stated): the trans_ids of every row of parse_line_based holds an
\* id exactly when the row's line names that transaction.
C20_RowTransIdsAreTheLinesIds ==
  \A n \in DOMAIN rows :
    \A t \in TxIds : t \in rows[n].trans_ids <=> Mentions(rows[n].raw_line, t)

\* The number an attribute of ItemInfo stands for, d when it is absent.
AttrNum(s, d) == IF s = None THEN d ELSE NumOf[s]

\* The attributes that C15 speaks of are what the item holds.
HoldsAttributes(item, i) ==
  /\ item.price = AttrNum(i.price, 0)
  /\ item.qty = AttrNum(i.qty, 1)
  /\ item.amount = AttrNum(i.amount, 0)

\* C15: an AddItem fragment with numeric attributes and no nested
\* Prices/Price, processed under an established ticket, gives the ticket an
\* item whose price, qty and amount are the attributes Price, Quantity and
\* Amount (0 when Amount is absent), in the Session/LPE loop and in the
\* vendor driver; where the vendor driver sums the fragment into an item it
\* holds, the amount grows by the attribute Amount.
C15_ItemFieldsAreTheAttributes ==
  [][\A f \in AddItemFrags :
       f.item # NoItem /\ f.item.sub = None /\ GenItemConverts(f.item) =>
         /\ GenAddItemStep(f) =>
              LET old == transactions[current_ticket]
                  new == transactions'[current_ticket]
              IN /\ Len(new.items) > Len(old.items)
                 /\ HoldsAttributes(new.items[Len(old.items) + 1], f.item)
         /\ PromAddItemStep(f) =>
              LET old == transactions[current_ticket]
                  new == transactions'[current_ticket]
                  at == KeyIndex(old, get_item_key(f.item))
              IN IF at = 0
                 THEN /\ Len(new.items) = Len(old.items) + 1
                      /\ HoldsAttributes(new.items[Len(new.items)], f.item)
                 ELSE /\ Len(new.items) = Len(old.items)
                      /\ new.items[at].amount =
                           old.items[at].amount + AttrNum(f.item.amount, 0)
                      /\ new.items[at].price = old.items[at].price]_vars

\* Both drivers hold an item made from an ItemInfo without Amount whose
\* quantity times price is not 0.
C15_Witness ==
  /\ driver \in {"line", "prom"}
  /\ \E t \in DOMAIN transactions :
       \E n \in 1..Len(transactions[t].items) :
         /\ transactions[t].items[n].name = ItemNoAmt.name
         /\ transactions[t].items[n].amount = 0
         /\ transactions[t].items[n].qty * transactions[t].items[n].price # 0

\* An AddItem fragment with an ItemInfo meets an established ticket: in the
\* Session/LPE loop, or in the vendor driver.
GenItemStep(f) ==
  /\ SessionStep(f)
  /\ f.method = "AddItem" /\ f.parsed /\ f.item # NoItem
  /\ current_ticket # None

\* C16 (as stated): an ItemInfo whose Quantity, Price or Amount is absent or
\* not a number leaves no exception: the loop goes on and the item is
\* recorded, in the vendor driver and in the Session/LPE loop.
C16_BadNumbersTakeDefaults ==
  [][\A f \in AddItemFrags :
       /\ GenItemStep(f) =>
            /\ in_session'
            /\ Len(transactions'[current_ticket].items)
                 > Len(transactions[current_ticket].items)
       /\ PromAddItemStep(f) =>
            /\ status' = "running"
            /\ \E n \in 1..Len(transactions'[current_ticket].items) :
                 transactions'[current_ticket].items[n].key = get_item_key(f.item)]_vars

\* The methods the if/elif chain of process_lpe_fragment names.
Recognized ==
  {"SetParam", "Init", "AddItem", "Query(Response)", "AddMmbrCard", "AddMmbrInfo",
   "AddTender", "AddDocument", "AddDocument(Response)", "GetTriggeredPromotions",
   "Query", "GetLoyaltySummary", "GetSaversSummary"}

\* Some transaction's other_fragments holds fragment f under its method.
Stored(f, txs) ==
  \E t \in DOMAIN txs :
    \E n \in 1..Len(txs[t].other_fragments) :
      txs[t].other_fragments[n] = [method |-> f.method, raw |-> f]

\* C17 (as stated): the vendor driver stores every fragment whose method it
\* does not recognize, the absent Method attribute included, in the
\* other_fragments of a transaction, whatever the context.
C17_UnrecognizedFragmentsAreKept ==
  [][\A f \in PromFrags :
       f.method \notin Recognized /\ PromStep(f) =>
         /\ status' = "running"
         /\ Stored(f, transactions')]_vars

\* C18 (as stated): in the vendor driver no transaction holds two items
\* with the same (plu, posSequence, depCode).
C18_NoTwoItemsShareAKey ==
  driver = "prom" =>
    \A t \in DOMAIN transactions :
      \A m, n \in 1..Len(transactions[t].items) :
        LET a == transactions[t].items[m]
            b == transactions[t].items[n]
        IN (a.plu = b.plu /\ a.posSequence = b.posSequence /\ a.depCode = b.depCode)
             => m = n

\* C19 (as stated): the total stored for a transaction is explicit_total
\* whenever that is present and not 0, of either sign, and the sum of the
\* item amounts otherwise.
C19_ExplicitTotalOfEitherSign ==
  [][\A tx_data \in TxData :
       upsert_transaction(tx_data) =>
         \A n \in DOMAIN generic_transactions' :
           generic_transactions'[n].trans_id = tx_data.trans_id =>
             generic_transactions'[n].total_amount =
               IF tx_data.explicit_total # <<>> /\ tx_data.explicit_total[1] # 0
               THEN tx_data.explicit_total[1]
               ELSE sum_amounts(tx_data.items)]_vars

\* C21: in the vendor driver, when the file gave a session timestamp, every
\* transaction of the map has that timestamp as its transaction_time while
\* parse_prom_log runs to its return (nothing else sets the field there),
\* and no step changes a transaction_time that is set.
C21_SessionTimestampIsTheFallback ==
  /\ [](driver = "prom" /\ session_dt # NoTime /\ status = "running" =>
          \A t \in DOMAIN transactions :
            transactions[t].transaction_time = session_dt)
  /\ [][driver = "prom" =>
          \A t \in DOMAIN transactions :
            transactions[t].transaction_time # NoTime =>
              /\ t \in DOMAIN transactions'
              /\ transactions'[t].transaction_time = transactions[t].transaction_time]_vars

\* Two transactions of one prom file carry the session timestamp.
C21_Witness ==
  /\ driver = "prom" /\ session_dt # NoTime /\ status = "running"
  /\ DOMAIN transactions = TxIds
  /\ \A t \in TxIds : transactions[t].transaction_time = session_dt
  /\ \E t \in TxIds : transactions[t].items # <<>>

\* C22: no call of merge_transaction_info changes a card_id, first_name or
\* last_name that is set, and none removes a phone number or a promotion.
C22_FirstNonEmptyWins ==
  [][\A t \in DOMAIN transactions :
       /\ t \in DOMAIN transactions'
       /\ transactions[t].card_id # None =>
            transactions'[t].card_id = transactions[t].card_id
       /\ transactions[t].first_name # None =>
            transactions'[t].first_name = transactions[t].first_name
       /\ transactions[t].last_name # None =>
            transactions'[t].last_name = transactions[t].last_name
       /\ transactions[t].phone_numbers \subseteq transactions'[t].phone_numbers
       /\ transactions[t].promotions \subseteq transactions'[t].promotions]_vars

\* MaxUnits texts were merged and one transaction holds a card, names, a
\* phone number and a promotion: every text after the first met set fields.
C22_Witness ==
  /\ driver = "line" /\ nunits = MaxUnits
  /\ \E t \in DOMAIN transactions :
       /\ transactions[t].card_id = "c1"
       /\ transactions[t].first_name = "n2"
       /\ transactions[t].phone_numbers # {}
       /\ transactions[t].promotions # {}

\* The rows of the parent table that hold transaction id t.
ParentRows(table, t) == {n \in DOMAIN table : table[n].trans_id = t}

\* C23: the parent table never holds two rows with one trans_id; after an
\* upsert the row of its trans_id carries that upsert's item count, and the
\* rows of the other ids are as before; the item table keeps every row it
\* had, in place, and gains one row per item of the upsert, equal items
\* included.
C23_ParentUpsertedChildrenAppended ==
  /\ [](\A t \in TxIds : Cardinality(ParentRows(generic_transactions, t)) <= 1)
  /\ [][\A tx_data \in TxData :
          upsert_transaction(tx_data) =>
            /\ \E n \in DOMAIN generic_transactions' :
                 /\ generic_transactions'[n].trans_id = tx_data.trans_id
                 /\ generic_transactions'[n].item_count = Len(tx_data.items)
            /\ \A n \in DOMAIN generic_transactions :
                 generic_transactions[n].trans_id # tx_data.trans_id =>
                   generic_transactions'[n] = generic_transactions[n]
            /\ Len(generic_items') = Len(generic_items) + Len(tx_data.items)
            /\ SubSeq(generic_items', 1, Len(generic_items)) = generic_items
            /\ \A k \in 1..Len(tx_data.items) :
                 LET row == generic_items'[Len(generic_items) + k]
                 IN /\ row.trans_id = tx_data.trans_id
                    /\ row.plu = tx_data.items[k].plu
                    /\ row.amount = tx_data.items[k].amount]_vars

\* One transaction was upserted twice with the same item: one parent row,
\* two equal item rows.
C23_Witness ==
  /\ driver = "sink"
  /\ Len(generic_transactions) = 1
  /\ Len(generic_items) = 2
  /\ generic_items[1] = generic_items[2]

\* The rows gained one row, made from line l, and kept the others.
YieldsRowOf(l) ==
  /\ Len(rows') = Len(rows) + 1
  /\ SubSeq(rows', 1, Len(rows)) = rows
  /\ rows'[Len(rows')].raw_line = l

\* C24: a line whose message looks like XML and opens a CDATA block without
\* closing it starts a fragment; each following line joins the fragment and
\* yields no row, up to and including the first line that holds "]]>" or
\* the end of the file, where the fragment gathered is parsed and the row
\* of the opening line is yielded; the next line is read by the main loop
\* again.  A line the main loop reads is discarded by the echo filter,
\* opens a fragment, or yields exactly one row (unless the merge of its
\* text raises, which ends the file).
C24_CdataContinuation ==
  /\ [](accum # <<>> =>
          /\ accum[1].xml /\ accum[1].opens /\ ~accum[1].echo
          /\ \A k \in 2..Len(accum) : ~accum[k].closes)
  /\ [][/\ \A l \in Lines :
             /\ ReadLine(l) /\ status' = "running" =>
                  IF l.echo THEN rows' = rows /\ accum' = <<>>
                  ELSE IF l.xml /\ l.opens THEN rows' = rows /\ accum' = <<l>>
                  ELSE YieldsRowOf(l) /\ accum' = <<>>
             /\ AccumLine(l) =>
                  IF l.closes
                  THEN /\ YieldsRowOf(accum[1]) /\ accum' = <<>>
                       /\ transactions' = InlineXml(accum \o <<l>>, transactions)
                  ELSE rows' = rows /\ accum' = accum \o <<l>>
        /\ LineFileEnd =>
             /\ accum' = <<>>
             /\ IF accum # <<>> THEN YieldsRowOf(accum[1]) ELSE rows' = rows]_vars

\* Three lines were read: the line that opened a CDATA block, the line that
\* closed it, and one more; the file has two rows, the first from the
\* opening line, and the fragment gave the map a transaction.
C24_Witness ==
  /\ driver = "rows" /\ nunits = 3 /\ accum = <<>>
  /\ Len(rows) = 2
  /\ rows[1].raw_line = CdataHead
  /\ rows[2].raw_line # CdataHead
  /\ "T1" \in DOMAIN transactions /\ transactions["T1"].storeID # None

\* The timestamp of the last row among the first k that came from a matched
\* line whose timestamp parsed; NoTime when there is none.
RECURSIVE LastParsed(_)
LastParsed(k) ==
  IF k = 0 THEN NoTime
  ELSE IF rows[k].raw_line.form # "plain" /\ rows[k].raw_line.dt # NoTime
       THEN rows[k].raw_line.dt
       ELSE LastParsed(k - 1)

\* C25: the row of a line that no grammar matches has, when the line starts
\* with "<", the timestamp of the most recent earlier line whose timestamp
\* parsed (NoTime when there is none; a matched line whose timestamp did
\* not parse is passed over), and NoTime when the line does not start with
\* "<".
C25_TimestampCarriedForward ==
  \A n \in DOMAIN rows :
    rows[n].raw_line.form = "plain" =>
      rows[n].combined_ts = IF rows[n].raw_line.lt THEN LastParsed(n - 1) ELSE NoTime

\* A line with a timestamp, a matched line whose timestamp did not parse,
\* then a plain XML line that carries the first line's timestamp.
C25_Witness ==
  /\ driver = "rows" /\ Len(rows) = 3
  /\ rows[1].raw_line = BracketText
  /\ rows[2].raw_line = BracketNoTime
  /\ rows[3].raw_line = PlainSession
  /\ rows[3].combined_ts = BracketText.dt

\* The document the big-XML driver is about to parse: the whole text on the
\* single-root attempt, the chunk just cut in the scan.
DocAtHand ==
  IF pc = "whole" THEN text_str ELSE strip(SubSeq(text_str, start_idx + 1, idx))

\* The document at hand parses and parse_single_xml returns.
ParsesAtHand ==
  /\ driver = "scan" /\ pc \in {"whole", "cut"}
  /\ WellFormed(DocAtHand)
  /\ ~ParseSingle(DocAtHand, transactions).raised

\* The earliest transaction_time among the transactions a step created.
EarliestCreated ==
  LET created == DOMAIN transactions' \ DOMAIN transactions
      times == {transactions'[t].transaction_time : t \in created} \ {NoTime}
  IN IF times = {} THEN NoTime ELSE Min(times)

\* C26: in the big-XML driver every document that is parsed (the whole file
\* or a chunk of the scan) yields exactly one row, whose combined_ts is the
\* earliest transaction_time among the transactions that document created
\* and null when it created none; a file parsed as one root yields one row
\* and the scan never starts on it.
C26_OneRowPerParsedChunk ==
  /\ [](( /\ driver = "scan"
          /\ WellFormed(text_str)
          /\ ~ParseSingle(text_str, <<>>).raised )
        => (pc \in {"whole", "done"} /\ Len(chunks) <= 1))
  /\ [][ParsesAtHand =>
          /\ Len(chunks') = Len(chunks) + 1
          /\ SubSeq(chunks', 1, Len(chunks)) = chunks
          /\ chunks'[Len(chunks')].raw = DocAtHand
          /\ chunks'[Len(chunks')].parsed
          /\ chunks'[Len(chunks')].combined_ts = EarliestCreated
          /\ (DOMAIN transactions' = DOMAIN transactions
                => chunks'[Len(chunks')].combined_ts = NoTime)
          /\ (pc = "whole" => pc' = "done" /\ Len(chunks') = 1)]_vars

\* A file of two Customer elements for one transaction was scanned: the
\* first chunk's row carries that transaction's time, the second chunk
\* created nothing and its row carries none.
C26_Witness ==
  /\ driver = "scan" /\ pc = "done"
  /\ text_str = CustLeaf("T1@2") \o CustLeaf("T1@1")
  /\ Len(chunks) = 2
  /\ chunks[1].parsed /\ chunks[1].combined_ts = 2
  /\ chunks[2].parsed /\ chunks[2].combined_ts = NoTime
  /\ transactions["T1"].timestamps = {1, 2}

\* The fragments that may set the current ticket: a SetParam or a
\* Query(Response) that carries a TicketNumber.
TicketFrags == {f \in SetParamFrags \cup QueryRespFrags : f.ticket # None}

\* C27 (as stated): over the LPE iterations of a session, in the generic
\* dispatcher and in the vendor driver, the current ticket changes only in
\* a step that handles a SetParam or a Query(Response) carrying that
\* ticket, and a ticket that is current is never replaced by none.
C27_TicketCarriedAcrossLPEs ==
  [][ ( \/ (driver = "line" /\ in_session /\ in_session')
        \/ driver = "prom" )
      => /\ (current_ticket' # current_ticket
               => \E f \in TicketFrags :
                    /\ f.ticket = current_ticket'
                    /\ (SessionStep(f) \/ PromStep(f)))
         /\ (current_ticket # None => current_ticket' # None) ]_vars

\* The chunks from the k-th on are substrings of the text, cut one after the
\* other at or after position from, each starting with '<'.
RECURSIVE CutInOrder(_, _)
CutInOrder(k, from) ==
  \/ k > Len(chunks)
  \/ \E a \in from..(length - 1) : \E b \in (a + 1)..length :
       /\ At(a) = "<"
       /\ chunks[k].raw = strip(SubSeq(text_str, a + 1, b))
       /\ Head(chunks[k].raw) = "<"
       /\ CutInOrder(k + 1, b)

\* C28: the fallback scanner of parse_big_xml terminates on every text; the
\* scan index grows in every iteration of the outer and of the inner loop
\* and never passes the end of the text; the chunks cut are disjoint
\* substrings of the text, in text order, each starting with '<'.
C28_ScannerTerminates ==
  /\ <>(pc = "done")
  /\ [](CutInOrder(1, 0))
  /\ [][ /\ (pc = "outer" /\ pc' = "inner") => (idx' > idx /\ start_idx' >= idx)
         /\ (pc = "inner" /\ idx < length) => idx' > idx
         /\ (pc \in {"outer", "inner", "cut"}) => (idx' >= idx /\ idx' <= length)
         /\ (pc = "cut")
              => chunks'[Len(chunks')].raw = strip(SubSeq(text_str, start_idx + 1, idx)) ]_vars

\* The scan of a text with a '<' inside a tag and a stray '>' at its end
\* came to its end and cut chunks.
C28_Witness ==
  /\ driver = "scan" /\ pc = "done"
  /\ text_str = <<"<">> \o Leaf \o <<">">>
  /\ idx = length
  /\ chunks # <<>>

\* C29: in the generic Session/LPE dispatcher and in the vendor driver a
\* current ticket other than none is a key of the transaction map, and no
\* step removes a key from the map: a lookup through the current ticket
\* finds a record.
C29_ContextIsAKey ==
  /\ []((driver \in {"line", "prom"} /\ current_ticket # None)
          => current_ticket \in DOMAIN transactions)
  /\ [][(driver \in {"line", "prom"})
          => (DOMAIN transactions) \subseteq (DOMAIN transactions')]_vars

\* The vendor driver holds two transactions and a current ticket; the
\* generic dispatcher's case is a session with a current ticket.
C29_Witness ==
  /\ driver = "prom"
  /\ current_ticket = "T2"
  /\ DOMAIN transactions = {"T1", "T2"}
  /\ nunits = MaxUnits

\* The identity of an item: the fields no merge changes.
ItemIdentity(it) == [plu |-> it.plu, depCode |-> it.depCode, key |-> it.key]

\* C30: in the vendor driver every entry of a transaction's item_keys maps
\* its key to a position of items whose item carries that key, distinct
\* keys map to distinct positions, and no step removes or reorders items.
C30_ItemKeysIndexItems ==
  /\ [](driver = "prom" =>
         \A t \in DOMAIN transactions :
           LET rec == transactions[t]
           IN /\ \A k \in DOMAIN rec.item_keys :
                   /\ rec.item_keys[k] \in 1..Len(rec.items)
                   /\ rec.items[rec.item_keys[k]].key = k
              /\ \A k1, k2 \in DOMAIN rec.item_keys :
                   k1 # k2 => rec.item_keys[k1] # rec.item_keys[k2])
  /\ [][(driver = "prom") =>
          \A t \in DOMAIN transactions :
            /\ Len(transactions'[t].items) >= Len(transactions[t].items)
            /\ \A n \in 1..Len(transactions[t].items) :
                 ItemIdentity(transactions'[t].items[n])
                   = ItemIdentity(transactions[t].items[n])
            /\ \A k \in DOMAIN transactions[t].item_keys :
                 /\ k \in DOMAIN transactions'[t].item_keys
                 /\ transactions'[t].item_keys[k] = transactions[t].item_keys[k]]_vars

\* A Query(Response) appended an item without a key and two AddItem
\* fragments appended items after it: two keys, at positions 2 and 3.
C30_Witness ==
  /\ driver = "prom"
  /\ \E t \in DOMAIN transactions :
       /\ Len(transactions[t].items) = 3
       /\ transactions[t].items[1].key = None
       /\ Cardinality(DOMAIN transactions[t].item_keys) = 2
       /\ {transactions[t].item_keys[k] : k \in DOMAIN transactions[t].item_keys} = {2, 3}

====
